---- MODULE Spec2Model ----
(***************************************************************************)
(* Model of the two thumbnail extractors of Thumbnail-Extractor:           *)
(*   ThumbnailExtractor        (src/thumbnail_extractor.py, OpenCV)        *)
(*   FFmpegThumbnailExtractor  (src/thumbnail_extractor_ffmpeg.py)         *)
(* File names are sequences of one-character strings, frame rates are in   *)
(* thousandths of a frame per second and durations in milliseconds, so     *)
(* that 29.97 fps is 29970 and 1.5 s is 1500.                              *)
(***************************************************************************)
EXTENDS Integers, Sequences, FiniteSets, TLC

\* ------------------------------------------------------------------ bounds
\* Direct calls of extract_thumbnail in one behaviour.
MaxCalls == 2
\* Calls of process_folder in one behaviour.
MaxRuns == 1
\* Entries directly inside the folder given to process_folder.
MaxFolder == 2

\* ----------------------------------------------------------------- strings
\* str.lower() on the letters of the alphabet used.
LowerMap ==
    ("A" :> "a") @@ ("B" :> "b") @@ ("C" :> "c") @@ ("D" :> "d") @@ ("E" :> "e") @@
    ("F" :> "f") @@ ("G" :> "g") @@ ("H" :> "h") @@ ("I" :> "i") @@ ("J" :> "j") @@
    ("K" :> "k") @@ ("L" :> "l") @@ ("M" :> "m") @@ ("N" :> "n") @@ ("O" :> "o") @@
    ("P" :> "p") @@ ("Q" :> "q") @@ ("R" :> "r") @@ ("S" :> "s") @@ ("T" :> "t") @@
    ("U" :> "u") @@ ("V" :> "v") @@ ("W" :> "w") @@ ("X" :> "x") @@ ("Y" :> "y") @@
    ("Z" :> "z")

LowerChar(c) == IF c \in DOMAIN LowerMap THEN LowerMap[c] ELSE c

UpperChar(c) ==
    IF \E u \in DOMAIN LowerMap : LowerMap[u] = c
    THEN CHOOSE u \in DOMAIN LowerMap : LowerMap[u] = c
    ELSE c

Lower(s) == [i \in 1..Len(s) |-> LowerChar(s[i])]

Upper(s) == [i \in 1..Len(s) |-> UpperChar(s[i])]

\* str.endswith(suffix)
EndsWith(s, suf) ==
    /\ Len(suf) <= Len(s)
    /\ SubSeq(s, Len(s) - Len(suf) + 1, Len(s)) = suf

\* str.rfind('.') as a 1-based position, 0 when there is no dot.
RFindDot(s) ==
    IF \E i \in 1..Len(s) : s[i] = "."
    THEN CHOOSE i \in 1..Len(s) : s[i] = "." /\ \A j \in (i+1)..Len(s) : s[j] # "."
    ELSE 0

\* pathlib.PurePath.suffix of a final path component.
Suffix(name) ==
    LET p == RFindDot(name)
    IN  IF 1 < p /\ p < Len(name) THEN SubSeq(name, p, Len(name)) ELSE << >>

\* pathlib.PurePath.stem of a final path component.
Stem(name) ==
    LET p == RFindDot(name)
    IN  IF 1 < p /\ p < Len(name) THEN SubSeq(name, 1, p - 1) ELSE name

\* ----------------------------------------------------------------- numbers
Max(a, b) == IF a >= b THEN a ELSE b

Abs(a) == IF a >= 0 THEN a ELSE -a

\* int(x) of a float given in thousandths: truncation toward zero.
PyInt(milli) == IF milli >= 0 THEN milli \div 1000 ELSE -((-milli) \div 1000)

\* round(n/d) as Python rounds a float: to nearest, ties to even (d > 0, n >= 0).
PyRound(n, d) ==
    LET q == n \div d
        r == n % d
    IN  IF 2 * r < d THEN q
        ELSE IF 2 * r > d THEN q + 1
        ELSE IF q % 2 = 0 THEN q ELSE q + 1

\* --------------------------------------------------------- class constants
SUPPORTED_FORMATS ==
    << <<".", "m", "p", "4">>, <<".", "a", "v", "i">>, <<".", "m", "o", "v">>,
       <<".", "m", "k", "v">>, <<".", "f", "l", "v">>, <<".", "w", "m", "v">>,
       <<".", "w", "e", "b", "m">> >>

InFormats(suffix) == \E i \in 1..Len(SUPPORTED_FORMATS) : SUPPORTED_FORMATS[i] = suffix

\* ThumbnailExtractor.file_extension for an image_format.
FileExtension(fmt) == IF fmt = "jpeg" THEN <<"j", "p", "g">> ELSE <<"p", "n", "g">>

\* The extractor's output_folder (a relative path of one component).
output_folder == <<"o", "u", "t">>


\* -------------------------------------------------------------- path rules
\* The path components of p, split at "/".
RECURSIVE Components(_)
Components(p) ==
    IF \E i \in 1..Len(p) : p[i] = "/"
    THEN LET i == CHOOSE k \in 1..Len(p) : p[k] = "/" /\ \A j \in 1..(k - 1) : p[j] # "/"
         IN  <<SubSeq(p, 1, i - 1)>> \o Components(SubSeq(p, i + 1, Len(p)))
    ELSE <<p>>

\* The components pathlib keeps of a path: empty ones (repeated or trailing
\* slashes) and "." are dropped, ".." stays.
IsKeptPart(c) == c # << >> /\ c # <<".">>

NameParts(name) == SelectSeq(Components(name), IsKeptPart)

\* Components joined by "/".
RECURSIVE JoinParts(_)
JoinParts(parts) ==
    IF parts = << >> THEN << >>
    ELSE IF Len(parts) = 1 THEN parts[1]
    ELSE parts[1] \o <<"/">> \o JoinParts(Tail(parts))

IsAbsolute(name) == Len(name) > 0 /\ name[1] = "/"

\* The root of an absolute path: exactly two leading slashes are kept, any
\* other number is one.
Root(name) ==
    IF Len(name) >= 2 /\ name[2] = "/" /\ ~(Len(name) >= 3 /\ name[3] = "/")
    THEN <<"/", "/">>
    ELSE <<"/">>

\* pathlib's `folder / name`: an absolute name replaces the folder, and the
\* joined path is normalised.
JoinPath(folder, name) ==
    IF IsAbsolute(name)
    THEN Root(name) \o JoinParts(NameParts(name))
    ELSE JoinParts(NameParts(folder) \o NameParts(name))

\* pathlib's Path.exists() on path v: "True", "False", or "raise" when stat()
\* fails with an OSError other than ENOENT, ENOTDIR, EBADF, ELOOP (a name too
\* long, a parent that may not be searched), which exists() re-raises.
Exists(v) == IF v.stat_error THEN "raise" ELSE IF v.exists THEN "True" ELSE "False"

\* `video_path.exists()` and then the SUPPORTED_FORMATS test, which precede any
\* backend call: "raise" (the exception of exists() leaves the call), "reject"
\* (return False) or "accept".
PathCheck(v) ==
    IF Exists(v) = "raise" THEN "raise"
    ELSE IF Exists(v) = "False" THEN "reject"
    ELSE IF ~InFormats(Lower(Suffix(v.name))) THEN "reject"
    ELSE "accept"

\* Output file name of the OpenCV extractor; on.given is FALSE for output_name=None.
CvOutputName(v, on, fmt) ==
    IF ~on.given
    THEN Stem(v.name) \o <<"_", "t", "h", "u", "m", "b", "n", "a", "i", "l", ".">> \o FileExtension(fmt)
    ELSE IF ~(\/ EndsWith(on.name, <<".", "j", "p", "g">>)
              \/ EndsWith(on.name, <<".", "j", "p", "e", "g">>)
              \/ EndsWith(on.name, <<".", "p", "n", "g">>))
    THEN on.name \o <<".">> \o FileExtension(fmt)
    ELSE on.name

\* Output file name of the FFmpeg extractor.
FfOutputName(v, on) ==
    IF ~on.given
    THEN Stem(v.name) \o <<"_", "t", "h", "u", "m", "b", "n", "a", "i", "l", ".", "j", "p", "g">>
    ELSE IF ~(\/ EndsWith(on.name, <<".", "j", "p", "g">>)
              \/ EndsWith(on.name, <<".", "p", "n", "g">>))
    THEN on.name \o <<".", "j", "p", "g">>
    ELSE on.name

\* ------------------------------------------------------ frame-position rule
\* OpenCV extractor: frame index one second before the end (fps in thousandths).
TargetFrame_NoClamp(fpsMilli, frames) == frames - PyInt(fpsMilli)

TargetFrame(fpsMilli, frames) == Max(0, frames - PyInt(fpsMilli))

\* FFmpeg extractor: timestamp one second before the end (milliseconds).
Timestamp(durMs) == Max(0, durMs - 1000)

\* ------------------------------------------------------------ input domains
None == [given |-> FALSE, name |-> << >>]

Named(n) == [given |-> TRUE, name |-> n]

VideoNames ==
    { <<"a", ".", "m", "p", "4">>, <<"a", ".", "M", "P", "4">>, <<"a", ".", "t", "x", "t">> }

\* A path: its final component, whether a file is there, and whether stat() of
\* it fails with an error exists() does not swallow.
Videos == [name : VideoNames, exists : BOOLEAN, stat_error : BOOLEAN]

NoVideo == [name |-> << >>, exists |-> FALSE, stat_error |-> FALSE]

OutputNames ==
    { None,
      Named(<<"t">>),
      Named(<<"t", ".", "j", "p", "e", "g">>),
      Named(<<".", ".", "/", "t">>),
      Named(<<".", "/", "t">>),
      Named(<<"/", "t", ".", "j", "p", "g">>) }

\* Names an input folder may hold.
FolderNames ==
    { <<"a", ".", "m", "p", "4">>, <<"a", ".", "a", "v", "i">>,
      <<"b", ".", "M", "P", "4">>, <<"c", ".", "t", "x", "t">> }

\* Directory listings: the entries of a folder in the order the OS returns them.
Listings ==
    UNION { { s \in [1..n -> FolderNames] : \A i, j \in 1..n : i # j => s[i] # s[j] }
            : n \in 0..MaxFolder }

\* A clip is the content of the video files at hand: its frame rate in
\* thousandths of a frame per second and its duration in milliseconds.
FpsValues == {23976, 29970, 30000}

Durations == {400, 1500, 10000}

Clips == [fps : FpsValues, dur : Durations]

\* The clip of the specifications that are not about the frame position.
PlainClips == {[fps |-> 29970, dur |-> 10000]}

\* Frame count of a clip: round(F * D).
FrameCount(c) == PyRound(c.fps * c.dur, 1000000)

\* Outcomes of cap.get(CAP_PROP_FPS) and int(cap.get(CAP_PROP_FRAME_COUNT)) on
\* clip c: its values, a zero for either, or a NaN frame count, on which int()
\* raises ValueError.
CvPropOutcomes(c) ==
    { [raises |-> TRUE, fps |-> 0, count |-> 0],
      [raises |-> FALSE, fps |-> c.fps, count |-> FrameCount(c)],
      [raises |-> FALSE, fps |-> 0, count |-> FrameCount(c)],
      [raises |-> FALSE, fps |-> c.fps, count |-> 0] }

\* Outcomes of the ffprobe run in get_video_duration on clip c.
ProbeOutcomes(c) ==
    {[kind |-> k, value |-> 0] :
        k \in {"no_tool", "exit_nonzero", "bad_json", "no_duration", "non_numeric", "null"}}
    \cup {[kind |-> "number", value |-> d] : d \in {0, c.dur}}

\* ------------------------------------------------------------------- state
VARIABLES
    clip,           \* content of the video files at hand
    globIgnoreCase, \* pathlib glob patterns match case-insensitively (Windows paths)
    image_format,   \* ThumbnailExtractor.image_format
    stdout_unicode, \* sys.stdout can encode text outside ASCII (FALSE: ascii, cp1252)
    outFiles,       \* paths of the image files that exist
    handles,        \* cv2.VideoCapture handles opened and not yet released
    calls,          \* top-level operations started
    pc,             \* position of the running operation
    caller,         \* "single": extract_thumbnail called directly; "folder": by process_folder
    backend,        \* "cv" (ThumbnailExtractor) or "ff" (FFmpegThumbnailExtractor)
    video,          \* video_path of the running extract_thumbnail
    output_name,    \* output_name of the running extract_thumbnail
    ops,            \* backend operations the running extract_thumbnail has started
    wrote,          \* paths the running extract_thumbnail has written
    result,         \* "none", "True", "False", or "raise" (an exception left the call)
    output_path,    \* output_path of the running extract_thumbnail, << >> before it is set
    fps, total_frames, target_frame,  \* locals of the last OpenCV extraction
    duration, timestamp,              \* locals of the last FFmpeg extraction
    seeked,         \* backends whose target (target_frame / timestamp) is computed
    video_files, successful, failed,  \* locals of process_folder
    listing,        \* the folder process_folder was given, as listed
    invoked         \* extract_thumbnail calls process_folder has made: [name, result, wrote]

vars ==
    << clip, globIgnoreCase, image_format, stdout_unicode, outFiles, handles, calls, pc, caller, backend, video,
       output_name, ops, wrote, result, output_path, fps, total_frames, target_frame,
       duration, timestamp, seeked, video_files, successful, failed, listing, invoked >>

envVars == << clip, globIgnoreCase, image_format, stdout_unicode >>

cvLocals == << fps, total_frames, target_frame >>

ffLocals == << duration, timestamp >>

folderVars == << video_files, successful, failed, listing, invoked >>

callVars == << caller, backend, video, output_name >>

\* Image files the output folder may hold before the extractors are constructed.
EarlierFiles == { JoinPath(output_folder, <<"a", "_", "t", "h", "u", "m", "b", "n", "a", "i", "l", ".", "j", "p", "g">>) }

\* After construction of both extractors, with video files of a clip of C at
\* hand: mkdir(parents=True, exist_ok=True) has made the output folder or kept
\* it with the files it holds.
InitOver(C) ==
    /\ clip \in C
    /\ globIgnoreCase \in BOOLEAN
    /\ image_format \in {"jpeg", "png"}
    /\ stdout_unicode \in BOOLEAN
    /\ outFiles \in SUBSET EarlierFiles
    /\ handles = 0
    /\ calls = 0
    /\ pc = "idle"
    /\ caller = "single"
    /\ backend = "cv"
    /\ video = NoVideo
    /\ output_name = None
    /\ ops = << >>
    /\ wrote = {}
    /\ result = "none"
    /\ output_path = << >>
    /\ fps = 0 /\ total_frames = 0 /\ target_frame = 0
    /\ duration = 0 /\ timestamp = 0
    /\ seeked = {}
    /\ video_files = << >> /\ successful = 0 /\ failed = 0
    /\ listing = << >>
    /\ invoked = << >>

Init == InitOver(PlainClips)

\* No operation is running: a new top-level call may start.
Idle ==
    \/ pc \in {"idle", "folder_done", "folder_raise"}
    \/ pc = "ret" /\ caller = "single"

\* ---------------------------------------------------- single-file extraction
\* Entry of extract_thumbnail of backend b: the path checks before any backend call.
ExtractEnter(b, v, on, c) ==
    /\ backend' = b /\ video' = v /\ output_name' = on /\ caller' = c
    /\ ops' = << >> /\ wrote' = {} /\ output_path' = << >>
    /\ seeked' = seeked \ {b}
    /\ IF b = "cv"
       THEN fps' = 0 /\ total_frames' = 0 /\ target_frame' = 0 /\ UNCHANGED ffLocals
       ELSE duration' = 0 /\ timestamp' = 0 /\ UNCHANGED cvLocals
    /\ CASE PathCheck(v) = "accept" ->
              pc' = (IF b = "cv" THEN "cv_open" ELSE "ff_probe") /\ result' = "none"
         [] PathCheck(v) = "reject" -> pc' = "ret" /\ result' = "False"
         [] OTHER -> pc' = "ret" /\ result' = "raise"
    /\ UNCHANGED << envVars, outFiles, handles >>

\* The locals of an earlier process_folder are gone.
FolderReset ==
    /\ video_files' = << >> /\ successful' = 0 /\ failed' = 0
    /\ listing' = << >> /\ invoked' = << >>

CvExtractThumbnail(v, on) ==
    /\ Idle /\ calls < MaxCalls
    /\ calls' = calls + 1
    /\ ExtractEnter("cv", v, on, "single")
    /\ FolderReset

FfExtractThumbnail(v, on) ==
    /\ Idle /\ calls < MaxCalls
    /\ calls' = calls + 1
    /\ ExtractEnter("ff", v, on, "single")
    /\ FolderReset

\* Where control goes when the try block of the OpenCV extractor is left, by a
\* return or by a caught exception: its finally clause.
TryExitPc_SkipFinally == "ret"

TryExitPc == "cv_finally"

TryExit(res) == pc' = TryExitPc /\ result' = res

\* cap = cv2.VideoCapture(...); cap.isOpened()
CvOpen ==
    /\ pc = "cv_open"
    /\ ops' = Append(ops, "open")
    /\ \E opened \in BOOLEAN :
         IF opened
         THEN handles' = handles + 1 /\ pc' = "cv_props" /\ UNCHANGED result
         ELSE handles' = handles /\ pc' = "ret" /\ result' = "False"
    /\ UNCHANGED << envVars, outFiles, calls, callVars, wrote, output_path, cvLocals,
                    ffLocals, seeked, folderVars >>

\* fps, total_frames, their validity test and target_frame.
CvProps ==
    /\ pc = "cv_props"
    /\ ops' = Append(ops, "get")
    /\ \E p \in CvPropOutcomes(clip) :
         IF p.raises
         THEN TryExit("False") /\ UNCHANGED << cvLocals, seeked >>
         ELSE /\ fps' = p.fps /\ total_frames' = p.count
              /\ IF p.count = 0 \/ p.fps = 0
                 THEN TryExit("False") /\ UNCHANGED << target_frame, seeked >>
                 ELSE /\ target_frame' = TargetFrame(p.fps, p.count)
                      /\ seeked' = seeked \cup {"cv"}
                      /\ pc' = "cv_seek" /\ UNCHANGED result
    /\ UNCHANGED << envVars, outFiles, handles, calls, callVars, wrote, output_path,
                    ffLocals, folderVars >>

\* cap.set(CAP_PROP_POS_FRAMES, target_frame)
CvSeek ==
    /\ pc = "cv_seek"
    /\ ops' = Append(ops, "seek")
    /\ pc' = "cv_read"
    /\ UNCHANGED << envVars, outFiles, handles, calls, callVars, wrote, result, output_path,
                    cvLocals, ffLocals, seeked, folderVars >>

\* ret, frame = cap.read()
CvRead ==
    /\ pc = "cv_read"
    /\ ops' = Append(ops, "read")
    /\ \E r \in {"frame", "no_frame", "raise"} :
         IF r = "frame" THEN pc' = "cv_write" /\ UNCHANGED result ELSE TryExit("False")
    /\ UNCHANGED << envVars, outFiles, handles, calls, callVars, wrote, output_path,
                    cvLocals, ffLocals, seeked, folderVars >>

\* print(text) of a text that holds a character outside ASCII ("\u2713", a
\* message of ffmpeg): "ok", or "raise" (UnicodeEncodeError) when sys.stdout
\* cannot encode it.
PrintUnicode(canEncode) == IF canEncode THEN "ok" ELSE "raise"

\* Output naming, cv2.imwrite, whose return value is not read, and the
\* print("\u2713 Saved thumbnail ...") before `return True`; an exception of
\* either is caught by `except Exception`.
CvWrite ==
    /\ pc = "cv_write"
    /\ ops' = Append(ops, "imwrite")
    /\ LET path == JoinPath(output_folder, CvOutputName(video, output_name, image_format))
       IN  /\ output_path' = path
           /\ \E w \in {"written", "not_written", "raise"} :
                /\ IF w = "written"
                   THEN outFiles' = outFiles \cup {path} /\ wrote' = wrote \cup {path}
                   ELSE UNCHANGED << outFiles, wrote >>
                /\ TryExit(IF w = "raise" \/ PrintUnicode(stdout_unicode) = "raise"
                           THEN "False" ELSE "True")
    /\ UNCHANGED << envVars, handles, calls, callVars, cvLocals, ffLocals, seeked,
                    folderVars >>

\* finally: cap.release()
CvFinally ==
    /\ pc = "cv_finally"
    /\ ops' = Append(ops, "release")
    /\ handles' = handles - 1
    /\ pc' = "ret"
    /\ UNCHANGED << envVars, outFiles, calls, callVars, wrote, result, output_path,
                    cvLocals, ffLocals, seeked, folderVars >>

\* get_video_duration: "value" with the duration, "None", or "raise" when the
\* exception is none of CalledProcessError, JSONDecodeError, ValueError.
GetVideoDuration(o) ==
    CASE o.kind = "number" -> [kind |-> "value", value |-> o.value]
      [] o.kind \in {"exit_nonzero", "bad_json", "non_numeric", "no_duration"} ->
            [kind |-> "None", value |-> 0]
      [] o.kind \in {"no_tool", "null"} -> [kind |-> "raise", value |-> 0]

\* duration = self.get_video_duration(...), its test, timestamp and output naming.
FfProbe ==
    /\ pc = "ff_probe"
    /\ ops' = Append(ops, "ffprobe")
    /\ \E o \in ProbeOutcomes(clip) :
         LET d == GetVideoDuration(o)
         IN  CASE d.kind = "raise" ->
                    /\ pc' = "ret" /\ result' = "raise"
                    /\ UNCHANGED << ffLocals, seeked, output_path >>
               [] d.kind = "None" \/ (d.kind = "value" /\ d.value <= 0) ->
                    /\ pc' = "ret" /\ result' = "False"
                    /\ UNCHANGED << ffLocals, seeked, output_path >>
               [] OTHER ->
                    /\ duration' = d.value
                    /\ timestamp' = Timestamp(d.value)
                    /\ seeked' = seeked \cup {"ff"}
                    /\ output_path' = JoinPath(output_folder, FfOutputName(video, output_name))
                    /\ pc' = "ff_run" /\ UNCHANGED result
    /\ UNCHANGED << envVars, outFiles, handles, calls, callVars, wrote, cvLocals, folderVars >>

\* What the try block of the FFmpeg extractor gives once ffmpeg has exited 0,
\* `there` telling whether output_path.exists(): the print("\u2713 Saved
\* thumbnail ...") precedes `return True`, and its exception is caught by
\* `except Exception`.
FfSaved(there, canEncode) ==
    IF there /\ PrintUnicode(canEncode) = "ok" THEN "True" ELSE "False"

\* subprocess.run(ffmpeg ...), the output_path.exists() test after it, and the
\* handlers. "exit_nonzero_text": ffmpeg fails with a message that holds a
\* character outside ASCII, which the CalledProcessError handler prints; an
\* exception raised in a handler leaves the call.
FfRun ==
    /\ pc = "ff_run"
    /\ ops' = Append(ops, "ffmpeg")
    /\ \E o \in {"ok_file", "ok_no_file", "exit_nonzero", "exit_nonzero_text", "no_tool"} :
         CASE o = "ok_file" ->
                /\ outFiles' = outFiles \cup {output_path}
                /\ wrote' = wrote \cup {output_path}
                /\ result' = FfSaved(TRUE, stdout_unicode)
           [] o = "ok_no_file" ->
                /\ UNCHANGED << outFiles, wrote >>
                /\ result' = FfSaved(output_path \in outFiles, stdout_unicode)
           [] o = "exit_nonzero_text" ->
                /\ UNCHANGED << outFiles, wrote >>
                /\ result' = (IF PrintUnicode(stdout_unicode) = "raise" THEN "raise" ELSE "False")
           [] OTHER ->
                /\ UNCHANGED << outFiles, wrote >>
                /\ result' = "False"
    /\ pc' = "ret"
    /\ UNCHANGED << envVars, handles, calls, callVars, output_path, cvLocals, ffLocals,
                    seeked, folderVars >>

\* ----------------------------------------------------------- folder extraction
\* The entries of `lst`, in listing order, that the pattern "*" + ext matches.
GlobMatches(name, ext, ignoreCase) ==
    IF ignoreCase THEN EndsWith(Lower(name), Lower(ext)) ELSE EndsWith(name, ext)

Glob(lst, ext, ignoreCase) == SelectSeq(lst, LAMBDA n : GlobMatches(n, ext, ignoreCase))

\* video_files after the loop over SUPPORTED_FORMATS has handled formats 1..k.
RECURSIVE CollectVideoFiles(_, _, _)
CollectVideoFiles(lst, k, ignoreCase) ==
    IF k = 0 THEN << >>
    ELSE CollectVideoFiles(lst, k - 1, ignoreCase)
         \o Glob(lst, SUPPORTED_FORMATS[k], ignoreCase)
         \o Glob(lst, Upper(SUPPORTED_FORMATS[k]), ignoreCase)

VideoFiles(lst, ignoreCase) == CollectVideoFiles(lst, Len(SUPPORTED_FORMATS), ignoreCase)

\* process_folder up to its loop: the folder tests and the enumeration. `kind`
\* is what folder_path is: "missing", a "file", a "dir", or "oserror" when its
\* exists() raises.
ProcessFolder(b, kind, lst) ==
    /\ Idle /\ calls < MaxRuns
    /\ calls' = calls + 1
    /\ backend' = b /\ caller' = "folder"
    /\ video' = NoVideo /\ output_name' = None
    /\ ops' = << >> /\ wrote' = {} /\ result' = "none" /\ output_path' = << >>
    /\ successful' = 0 /\ failed' = 0 /\ invoked' = << >>
    /\ IF kind = "oserror"
       THEN listing' = << >> /\ video_files' = << >> /\ pc' = "folder_raise"
       ELSE IF kind # "dir"
       THEN listing' = << >> /\ video_files' = << >> /\ pc' = "folder_done"
       ELSE /\ listing' = lst
            /\ video_files' = VideoFiles(lst, globIgnoreCase)
            /\ pc' = (IF VideoFiles(lst, globIgnoreCase) = << >>
                      THEN "folder_done" ELSE "folder_loop")
    /\ UNCHANGED << envVars, outFiles, handles, cvLocals, ffLocals, seeked >>

\* One turn of `for video_file in video_files`: the call of extract_thumbnail
\* on the globbed entry (which may be a dangling link or be gone by now, or
\* fail to stat), or the return of (successful, failed) when the files are exhausted.
FolderNext ==
    /\ pc = "folder_loop"
    /\ IF video_files = << >>
       THEN /\ pc' = "folder_done"
            /\ UNCHANGED << envVars, outFiles, handles, callVars, ops, wrote, result,
                            output_path, cvLocals, ffLocals, seeked, video_files >>
       ELSE /\ \E ex \in BOOLEAN, err \in BOOLEAN :
                 ExtractEnter(backend,
                              [name |-> Head(video_files), exists |-> ex, stat_error |-> err],
                              None, "folder")
            /\ video_files' = Tail(video_files)
    /\ UNCHANGED << calls, successful, failed, listing, invoked >>

\* extract_thumbnail has returned to process_folder: count it, or let its
\* exception leave process_folder.
FolderCount ==
    /\ pc = "ret" /\ caller = "folder"
    /\ invoked' = Append(invoked, [name |-> video.name, result |-> result, wrote |-> wrote])
    /\ CASE result = "True" ->
              successful' = successful + 1 /\ failed' = failed /\ pc' = "folder_loop"
         [] result = "False" ->
              failed' = failed + 1 /\ successful' = successful /\ pc' = "folder_loop"
         [] OTHER ->
              UNCHANGED << successful, failed >> /\ pc' = "folder_raise"
    /\ UNCHANGED << envVars, outFiles, handles, calls, callVars, ops, wrote, result,
                    output_path, cvLocals, ffLocals, seeked, video_files, listing >>

\* -------------------------------------------------------------- the program
\* Single-file extraction, called directly with any path and output name.
Next ==
    \/ \E v \in Videos, on \in OutputNames : CvExtractThumbnail(v, on)
    \/ \E v \in Videos, on \in OutputNames : FfExtractThumbnail(v, on)
    \/ CvOpen
    \/ CvProps
    \/ CvSeek
    \/ CvRead
    \/ CvWrite
    \/ CvFinally
    \/ FfProbe
    \/ FfRun

Spec == Init /\ [][Next]_vars

\* The frame-position rule: both extractors on one video file of every clip.
TheVideo == [name |-> <<"a", ".", "m", "p", "4">>, exists |-> TRUE, stat_error |-> FALSE]

NextPosition ==
    \/ CvExtractThumbnail(TheVideo, None)
    \/ FfExtractThumbnail(TheVideo, None)
    \/ CvOpen
    \/ CvProps
    \/ CvSeek
    \/ CvRead
    \/ CvWrite
    \/ CvFinally
    \/ FfProbe
    \/ FfRun

SpecPosition == InitOver(Clips) /\ [][NextPosition]_vars

\* Folder extraction.
NextFolder ==
    \/ \E b \in {"cv", "ff"}, kind \in {"missing", "file", "dir", "oserror"}, lst \in Listings :
         ProcessFolder(b, kind, lst)
    \/ FolderNext
    \/ FolderCount
    \/ CvOpen
    \/ CvProps
    \/ CvSeek
    \/ CvRead
    \/ CvWrite
    \/ CvFinally
    \/ FfProbe
    \/ FfRun

SpecFolder == Init /\ [][NextFolder]_vars

\* ------------------------------------------------------------ the claims
\* The allowlist as the specification gives it.
ClaimedFormats ==
    { <<".", "m", "p", "4">>, <<".", "a", "v", "i">>, <<".", "m", "o", "v">>,
      <<".", "m", "k", "v">>, <<".", "f", "l", "v">>, <<".", "w", "m", "v">>,
      <<".", "w", "e", "b", "m">> }

Range(f) == {f[i] : i \in DOMAIN f}

\* The directory stack after walking components cs from the working directory;
\* <<"^">> marks a walk that has left the working directory.
RECURSIVE Walk(_, _)
Walk(stack, cs) ==
    IF cs = << >> THEN stack
    ELSE IF Head(cs) = <<".", ".">>
         THEN IF stack = << >> \/ stack = << <<"^">> >>
              THEN << <<"^">> >>
              ELSE Walk(SubSeq(stack, 1, Len(stack) - 1), Tail(cs))
    ELSE IF Head(cs) = << >> \/ Head(cs) = <<".">> THEN Walk(stack, Tail(cs))
    ELSE Walk(Append(stack, Head(cs)), Tail(cs))

\* Path p names a file inside the directory `folder` (one component).
InsideFolder(p, folder) ==
    /\ ~IsAbsolute(p)
    /\ LET w == Walk(<< >>, Components(p)) IN Len(w) >= 2 /\ w[1] = folder

ThumbnailSuffix == <<"_", "t", "h", "u", "m", "b", "n", "a", "i", "l", ".">>

\* The configured image extension of the running extractor.
ConfiguredExtension ==
    IF backend = "cv" /\ image_format = "png" THEN <<"p", "n", "g">> ELSE <<"j", "p", "g">>

\* C1: single-file extraction of either backend never lets an exception leave
\* the call: whenever extract_thumbnail has ended, it has returned True or False.
C1_NoExceptionPropagates == pc = "ret" => result \in {"True", "False"}

\* C2: no backend operation is started unless the path exists and its extension,
\* lower-cased, is in the allowlist; a call on any other path returns False
\* having started none.
C2_NoBackendBeforeChecks ==
    LET ok == video.exists /\ Lower(Suffix(video.name)) \in ClaimedFormats
    IN  /\ ops # << >> => ok
        /\ (pc = "ret" /\ ~ok) => (result = "False" /\ ops = << >>)

\* C3: in the OpenCV extractor a handle is open only between the successful
\* open and the end of the call: once extract_thumbnail has returned, and
\* before the next open, no handle is unreleased.
C3_HandlesReleased ==
    /\ handles \in {0, 1}
    /\ pc \notin {"cv_props", "cv_seek", "cv_read", "cv_write", "cv_finally"} => handles = 0

\* A second OpenCV extraction has opened the video, failed and returned, the
\* handle released.
C3_Witness ==
    /\ pc = "ret" /\ backend = "cv" /\ calls = 2 /\ result = "False"
    /\ "open" \in Range(ops) /\ "read" \in Range(ops) /\ "release" \in Range(ops)
    /\ handles = 0

\* C4: the frame index the OpenCV extractor seeks to is
\* max(0, total_frames - round(frame_rate)), the rate rounded to nearest.
C4_TargetUsesRound ==
    "cv" \in seeked => target_frame = Max(0, total_frames - PyRound(fps, 1000))

\* C5: for a video of duration D and rate F with round(F*D) frames, the OpenCV
\* target frame divided by F and the FFmpeg timestamp max(0, D-1) differ by at
\* most 1/F (in frames times 10^6: |target*10^6 - timestamp*fps| <= 10^6).
C5_BackendsAgree ==
    ({"cv", "ff"} \subseteq seeked /\ total_frames = PyRound(fps * duration, 1000000))
        => Abs(target_frame * 1000000 - timestamp * fps) <= 1000000

\* C6: for a video shorter than one second with valid metadata the target is
\* frame 0 / timestamp 0 and the call goes on to the seek and read, or to the
\* transcoder, instead of failing.
C6_ShortVideoClamps ==
    /\ (backend = "cv" /\ "get" \in Range(ops)
            /\ total_frames > 0 /\ fps > 0 /\ total_frames * 1000 < fps)
        => /\ "cv" \in seeked /\ target_frame = 0
           /\ pc = "cv_seek" \/ "seek" \in Range(ops)
    /\ (backend = "ff" /\ "ffprobe" \in Range(ops) /\ 0 < duration /\ duration < 1000)
        => /\ "ff" \in seeked /\ timestamp = 0
           /\ pc = "ff_run" \/ "ffmpeg" \in Range(ops)

\* Both extractors have handled a video shorter than a second: the FFmpeg one
\* is about to run the transcoder at timestamp 0 after the OpenCV one sought
\* frame 0.
C6_Witness ==
    /\ pc = "ff_run" /\ 0 < duration /\ duration < 1000 /\ timestamp = 0
    /\ "cv" \in seeked /\ total_frames > 0 /\ total_frames * 1000 < fps /\ target_frame = 0

\* C7: a process_folder that has returned has called extract_thumbnail exactly
\* once for each distinct file of the folder with a supported extension, and
\* successful + failed is the number of those files.
C7_EachFileOnce ==
    pc = "folder_done" =>
        LET matched == {n \in Range(listing) : Lower(Suffix(n)) \in ClaimedFormats}
        IN  /\ \A i, j \in 1..Len(invoked) : i # j => invoked[i].name # invoked[j].name
            /\ {invoked[i].name : i \in 1..Len(invoked)} = matched
            /\ successful + failed = Cardinality(matched)

\* C8: extract_thumbnail that returned True has written exactly the file at
\* output_path, which exists; one that returned False has written nothing.
C8_WritesIffSuccess ==
    pc = "ret" =>
        /\ result = "True" => (wrote = {output_path} /\ output_path \in outFiles)
        /\ result = "False" => wrote = {}

\* C9: the output path lies inside the output folder for every output_name;
\* without output_name it is <folder>/<stem>_thumbnail.<ext>, and a name with
\* no image extension gets the default extension appended.
C9_OutputInsideFolder ==
    output_path # << >> =>
        /\ InsideFolder(output_path, output_folder)
        /\ ~output_name.given =>
              output_path = output_folder \o <<"/">> \o Stem(video.name)
                                \o ThumbnailSuffix \o ConfiguredExtension
        /\ (output_name.given /\ RFindDot(output_name.name) = 0) =>
              EndsWith(output_path, output_name.name \o <<".">> \o ConfiguredExtension)

\* C10: after process_folder has returned, the videos it processed successfully
\* have one distinct thumbnail file each (stated for the runs in which every
\* successful extraction did write its file).
C10_OneImagePerVideo ==
    (pc = "folder_done" /\ \A i \in 1..Len(invoked) :
                              invoked[i].result = "True" => invoked[i].wrote # {})
        => LET done == {i \in 1..Len(invoked) : invoked[i].result = "True"}
           IN  Cardinality(UNION {invoked[i].wrote : i \in done})
                 = Cardinality({invoked[i].name : i \in done})

====
